---- MODULE Spec2Model ----
(***************************************************************************)
(* Model of the bytebot WebSocket hub: WebSocketManager (registry, the two *)
(* subscription indices, fan-out, heartbeat and cleanup loops) together    *)
(* with the endpoint coroutines of websocket/router.py that drive it.      *)
(* The program runs on one asyncio event loop: every action below is the   *)
(* code that runs between two suspension points (await accept / send /     *)
(* close / receive / sleep).                                               *)
(***************************************************************************)
EXTENDS Integers, Sequences, FiniteSets, TLC

\* ---------------------------------------------------------------- bounds
MaxClock == 301

\* ------------------------------------------------------ program constants
StaleSeconds == 300
ClockStep == StaleSeconds + 1

\* ------------------------------------------------------------ value sets
ConnIds == {"c1", "c2", "c3"}
\* the clients of the specifications that run two connections
TwoClients == {"c1", "c2"}
NoConn == "noconn"
None == "None"
EmptyStr == ""
UserIds == {"u1", EmptyStr}
TaskIds == {"t1"}
\* every string UUID() accepts that a client sends: the task ids and the id
\* of one more task, which no endpoint path and no event names
Uuids == TaskIds \cup {"t2"}
Producers == {"prod", "hb"}
Procs == ConnIds \cup Producers \cup {"cleanup", "stop"}

\* Python truthiness of an Optional[str] (`if user_id:`)
Truthy(v) == v # None /\ v # EmptyStr

\* WebSocketEventType members the routing distinguishes
SystemKinds == {"system_status", "error"}
\* mutant: every task event is routed like a system event
IsSystemKindLoose(k) == k \in SystemKinds \cup {"task_updated"}

\* broadcast_event line 354
IsSystemKind(k) == k \in SystemKinds

Event(k, t, u) == [type |-> k, task_id |-> t, user_id |-> u]

\* WebSocketEvent.create_heartbeat_event(): no task, no user
create_heartbeat_event == Event("heartbeat", None, None)

\* events handed to broadcast_event by producers and the admin endpoint
Events == {Event("task_updated", "t1", None), Event("error", "t1", None),
           Event("heartbeat", None, None), Event("error", None, None),
           Event("task_updated", None, "u1"), Event("task_updated", "t1", "u1")}

\* ---------------------------------------------------------- dict helpers
DictGet(d, k) == IF k \in DOMAIN d THEN d[k] ELSE {}

\* mutant: the entry is replaced by a set holding only the new member
DictAddReplace(d, k, c) ==
    [x \in DOMAIN d \cup {k} |-> IF x = k THEN {c} ELSE d[x]]

\* d.setdefault(k, set()).add(c)
DictAdd(d, k, c) ==
    [x \in DOMAIN d \cup {k} |-> IF x = k THEN DictGet(d, k) \cup {c} ELSE d[x]]

\* mutant: the entry stays when its last member is discarded
DictDiscardKeepEmpty(d, k, c) ==
    IF k \notin DOMAIN d THEN d ELSE [d EXCEPT ![k] = d[k] \ {c}]

\* d[k].discard(c); if not d[k]: del d[k]     (guarded by `k in d`)
DictDiscard(d, k, c) ==
    IF k \notin DOMAIN d THEN d
    ELSE IF d[k] \ {c} = {} THEN [x \in DOMAIN d \ {k} |-> d[x]]
    ELSE [d EXCEPT ![k] = d[k] \ {c}]

EmptyDict == [x \in {} |-> {}]

Range(s) == {s[i] : i \in DOMAIN s}

SeqRemove(s, c) == SelectSeq(s, LAMBDA x : x # c)

VARIABLES
    connections,       \* keys of manager.connections, in dict (insertion) order
    conn,              \* the WebSocketConnection object of every connection id
    user_connections,  \* manager.user_connections
    task_subscribers,  \* manager.task_subscribers
    now,               \* datetime.utcnow()
    ep,                \* endpoint coroutine of every connection id
    call,              \* the fan-out call of each producer (admin/producer, heartbeat loop)
    cleanup,           \* the cleanup loop
    dc,                \* per coroutine: id whose transport close it is awaiting in disconnect
    stop,              \* the stop() call of the application's shutdown
    last               \* outcome of the manager call that completed in the last step

vars == <<connections, conn, user_connections, task_subscribers, now, ep, call,
          cleanup, dc, stop, last>>

Registered == Range(connections)

\* ------------------------------------------------------------ connection
\* WebSocketConnection.__init__
NewConnection(u, t) ==
    [user_id |-> u, subscribed_tasks |-> {}, is_active |-> TRUE,
     last_heartbeat |-> t, closes |-> 0]

\* no WebSocketConnection object (yet, or any more)
NoObject == [user_id |-> None, subscribed_tasks |-> {}, is_active |-> FALSE,
             last_heartbeat |-> 0, closes |-> 0]

\* The objects of the ids in registry cs.  No manager code reads an object
\* it cannot reach through the registry (every lookup is connections.get),
\* so the fields of an object deleted from the registry are dropped.
Canon(cn, cs) == [c \in ConnIds |-> IF c \in Range(cs) THEN cn[c] ELSE NoObject]

\* WebSocketConnection.send_event / send_response: a transport error clears is_active
SendResult(cn, c, ok) ==
    IF ok THEN cn ELSE [cn EXCEPT ![c].is_active = FALSE]

\* ------------------------------------------------------------ disconnect
\* mutant: disconnect leaves the id in its user's index entry
DiscUsersKeep(uc, cn, c) == uc

\* manager.disconnect lines 152-156
DiscUsers(uc, cn, c) ==
    IF Truthy(cn[c].user_id) THEN DictDiscard(uc, cn[c].user_id, c) ELSE uc

\* manager.disconnect lines 158-163
DiscTasks(ts, cn, c) ==
    LET subs == cn[c].subscribed_tasks
        keep == {t \in DOMAIN ts : ~(t \in subs /\ ts[t] \ {c} = {})}
    IN [t \in keep |-> IF t \in subs THEN ts[t] \ {c} ELSE ts[t]]

\* manager.disconnect up to its first suspension point.  Result: the new
\* registry, indices and objects and `susp`: is the caller left awaiting
\* websocket.close().  closes counts the calls of websocket.close() on the
\* connection's transport (line 168, made only while is_active).
DisconnectEnter(cs, uc, ts, cn, c) ==
    IF c \notin Range(cs)
    THEN [cs |-> cs, uc |-> uc, ts |-> ts, cn |-> cn, susp |-> FALSE]
    ELSE IF cn[c].is_active
    THEN [cs |-> cs, uc |-> DiscUsers(uc, cn, c), ts |-> DiscTasks(ts, cn, c),
          cn |-> [cn EXCEPT ![c].closes = @ + 1], susp |-> TRUE]
    ELSE [cs |-> SeqRemove(cs, c), uc |-> DiscUsers(uc, cn, c),
          ts |-> DiscTasks(ts, cn, c), cn |-> cn, susp |-> FALSE]

\* `for connection_id in ids: await self.disconnect(connection_id)` run until
\* a disconnect suspends in close or the list is exhausted.
RECURSIVE RunDisconnects(_, _, _, _, _)
RunDisconnects(cs, uc, ts, cn, ids) ==
    IF ids = <<>>
    THEN [cs |-> cs, uc |-> uc, ts |-> ts, cn |-> cn, rest |-> <<>>,
          closing |-> NoConn]
    ELSE LET r == DisconnectEnter(cs, uc, ts, cn, Head(ids))
         IN IF r.susp
            THEN [cs |-> r.cs, uc |-> r.uc, ts |-> r.ts, cn |-> r.cn,
                  rest |-> Tail(ids), closing |-> Head(ids)]
            ELSE RunDisconnects(r.cs, r.uc, r.ts, r.cn, Tail(ids))

\* -------------------------------------------------------- handle_message
\* What json.loads hands to handle_message.  type None: an object without a
\* usable "type"; NonObject: JSON that is not an object (a list, a string, a
\* number, null); "badjson": text json.loads rejects (the router never calls
\* handle_message for it).
BadUuid == "not-a-uuid"
NonStrTask == "task#7"
BadRid == "rid#7"
NonObject == "nonobject"
RequestIds == {None, "r1"}

Msg(ty, t, r) == [type |-> ty, task_id |-> t, request_id |-> r]

NoMsg == Msg(None, None, None)

\* the messages of clients that send no request_id
Msgs == {Msg(ty, t, None) :
            ty \in {"subscribe_task", "unsubscribe_task"},
            t \in TaskIds \cup {None, BadUuid}}
        \cup {Msg(ty, None, None) :
            ty \in {"heartbeat", "get_status", "bogus", None, "badjson"}}

\* the messages that change the task index
SubMsgs == {m \in Msgs : m.task_id \in TaskIds}

\* every shape of inbound message: with and without a request_id, a task_id
\* or request_id that is not a string, a payload that is not an object
AllMsgs == {Msg(ty, t, r) :
                ty \in {"subscribe_task", "unsubscribe_task"},
                t \in TaskIds \cup {None, BadUuid, NonStrTask},
                r \in RequestIds}
           \cup {Msg(ty, None, r) :
                ty \in {"heartbeat", "get_status", "bogus", None},
                r \in RequestIds \cup {BadRid}}
           \cup {Msg(NonObject, None, None), Msg("badjson", None, None)}

\* WebSocketResponse: no response was returned
\* the empty dict `{}`
NoData == [f \in {} |-> None]

NoResponse == [type |-> None, data |-> NoData, success |-> FALSE,
               error |-> None, request_id |-> None]

\* WebSocketResponse.success_response
success_response(ty, data, rid) ==
    [type |-> ty, data |-> data, success |-> TRUE, error |-> None,
     request_id |-> rid]

\* mutant: an error response that drops the request id
error_responseNoRid(ty, err, rid) ==
    [type |-> ty, data |-> NoData, success |-> FALSE, error |-> err,
     request_id |-> None]

\* WebSocketResponse.error_response
error_response(ty, err, rid) ==
    [type |-> ty, data |-> NoData, success |-> FALSE, error |-> err,
     request_id |-> rid]

\* the message types handle_message dispatches (lines 204-211)
KnownTypes == {"subscribe_task", "unsubscribe_task", "heartbeat", "get_status"}

\* `message_data` is a mapping (`**message_data` and `.get` work on it)
IsObject(m) == m.type # NonObject

\* WebSocketMessage(**message_data) validates: type is a str, request_id is
\* a str or None (pydantic 2 does not coerce other JSON types to str)
Parses(m) == IsObject(m) /\ m.type # None /\ m.request_id # BadRid

\* mutant: update_heartbeat puts last_heartbeat back to the epoch
update_heartbeatEpoch(cn, c, t0) == [cn EXCEPT ![c].last_heartbeat = 0]

\* mutant: update_heartbeat leaves last_heartbeat alone
update_heartbeatSkip(cn, c, t0) == cn

\* WebSocketConnection.update_heartbeat
update_heartbeat(cn, c, t0) == [cn EXCEPT ![c].last_heartbeat = t0]

\* mutant: any task_id that is present counts as well-formed
WellFormedTaskIdLoose(t) == t # None

\* UUID(task_id_str) returns (it raises ValueError otherwise)
WellFormedTaskId(t) == t \in Uuids

\* f"Unknown message type: {message.type}"
UnknownTypeError(ty) == "Unknown message type: " \o ty

\* mutant: subscribe adds the connection to every entry of the task index
SubscribeTaskAll(ts, cn, c, t) ==
    [ts |-> [x \in DOMAIN ts \cup {t} |-> DictGet(ts, x) \cup {c}],
     cn |-> [cn EXCEPT ![c].subscribed_tasks = @ \cup {t}]]

\* _handle_subscribe_task lines 250-256
SubscribeTask(ts, cn, c, t) ==
    [ts |-> DictAdd(ts, t, c),
     cn |-> [cn EXCEPT ![c].subscribed_tasks = @ \cup {t}]]

\* mutant: unsubscribe keeps (or creates) the task's entry, emptied of c
UnsubscribeTaskKeepEntry(ts, cn, c, t) ==
    [ts |-> [x \in DOMAIN ts \cup {t} |-> DictGet(ts, x) \ {c}],
     cn |-> [cn EXCEPT ![c].subscribed_tasks = @ \ {t}]]

\* _handle_unsubscribe_task lines 288-295
UnsubscribeTask(ts, cn, c, t) ==
    [ts |-> DictDiscard(ts, t, c),
     cn |-> [cn EXCEPT ![c].subscribed_tasks = @ \ {t}]]

\* the reply data of _handle_subscribe_task (lines 258-262) and of
\* _handle_unsubscribe_task (lines 297-301); str(UUID(s)) of the ids the
\* clients send is s again
SubscribedData(t, sub) == [task_id |-> t, subscribed |-> sub]

\* mutant: get_status counts the connections of the requester's user
StatusDataPerUser(cs, cn, c) ==
    [connection_id |-> c, user_id |-> cn[c].user_id,
     subscribed_tasks |-> cn[c].subscribed_tasks,
     total_connections |->
         Cardinality({d \in Range(cs) : cn[d].user_id = cn[c].user_id})]

\* the reply data of _handle_get_status (lines 326-333): the requester's own
\* id, user and subscribed tasks (a list in the set's order, kept as the set)
\* and len(self.connections); session_id and connected_at are two more
\* fields of the requester's object, written once by __init__
StatusData(cs, cn, c) ==
    [connection_id |-> c, user_id |-> cn[c].user_id,
     subscribed_tasks |-> cn[c].subscribed_tasks,
     total_connections |-> Len(cs)]

\* _handle_subscribe_task / _handle_unsubscribe_task for message m of
\* connection c.  UUID() of a task_id that is not a string raises an
\* AttributeError, which handle_message's `except Exception` turns into the
\* "Internal error" response.
HandleTask(ts, cn, c, m) ==
    IF m.task_id = None
    THEN [ts |-> ts, cn |-> cn,
          resp |-> error_response(m.type, "task_id is required", m.request_id)]
    ELSE IF m.task_id = NonStrTask
    THEN [ts |-> ts, cn |-> cn,
          resp |-> error_response(m.type, "Internal error", m.request_id)]
    ELSE IF ~WellFormedTaskId(m.task_id)
    THEN [ts |-> ts, cn |-> cn,
          resp |-> error_response(m.type, "Invalid task_id format",
                                  m.request_id)]
    ELSE LET r == IF m.type = "subscribe_task"
                  THEN SubscribeTask(ts, cn, c, m.task_id)
                  ELSE UnsubscribeTask(ts, cn, c, m.task_id)
         IN [ts |-> r.ts, cn |-> r.cn,
             resp |-> success_response(m.type,
                                       SubscribedData(m.task_id,
                                           m.type = "subscribe_task"),
                                       m.request_id)]

\* manager.handle_message: the registry lookup, the parse, the heartbeat
\* bump, then the dispatch.  Result: new task index and connection objects,
\* the response returned, or the exception raised instead of a response.
HandleMessage(cs, ts, cn, c, m, t0) ==
    IF c \notin Range(cs)
    THEN [ts |-> ts, cn |-> cn, raised |-> "none",
          resp |-> error_response("error", "Connection not found", None)]
    ELSE IF ~IsObject(m)
    THEN [ts |-> ts, cn |-> cn, raised |-> "AttributeError", resp |-> NoResponse]
    ELSE IF ~Parses(m)
    THEN IF m.request_id = BadRid
         THEN [ts |-> ts, cn |-> cn, raised |-> "ValidationError",
               resp |-> NoResponse]
         ELSE [ts |-> ts, cn |-> cn, raised |-> "none",
               resp |-> error_response("error", "Invalid message format",
                                       m.request_id)]
    ELSE LET cn1 == update_heartbeat(cn, c, t0)
         IN IF m.type \in {"subscribe_task", "unsubscribe_task"}
            THEN LET r == HandleTask(ts, cn1, c, m)
                 IN [ts |-> r.ts, cn |-> r.cn, raised |-> "none",
                     resp |-> r.resp]
            ELSE IF m.type = "heartbeat"
            THEN [ts |-> ts, cn |-> update_heartbeat(cn1, c, t0),
                  raised |-> "none",
                  resp |-> success_response(m.type, [timestamp |-> t0],
                                            m.request_id)]
            ELSE IF m.type \in KnownTypes
            THEN [ts |-> ts, cn |-> cn1, raised |-> "none",
                  resp |-> success_response(m.type, StatusData(cs, cn1, c),
                                            m.request_id)]
            ELSE [ts |-> ts, cn |-> cn1, raised |-> "none",
                  resp |-> error_response(m.type, UnknownTypeError(m.type),
                                          m.request_id)]

\* ---------------------------------------------------------------- fan-out
\* mutant: a system kind reaches everyone only when the event is unscoped
TargetsUnscopedOnly(ev, cs, uc, ts) ==
    (IF ev.task_id # None /\ ev.task_id \in DOMAIN ts THEN ts[ev.task_id] ELSE {})
    \cup (IF Truthy(ev.user_id) /\ ev.user_id \in DOMAIN uc
          THEN uc[ev.user_id] ELSE {})
    \cup (IF IsSystemKind(ev.type) /\ ev.task_id = None /\ ev.user_id = None
          THEN Range(cs) ELSE {})

\* broadcast_event lines 342-355
Targets(ev, cs, uc, ts) ==
    (IF ev.task_id # None /\ ev.task_id \in DOMAIN ts THEN ts[ev.task_id] ELSE {})
    \cup (IF Truthy(ev.user_id) /\ ev.user_id \in DOMAIN uc
          THEN uc[ev.user_id] ELSE {})
    \cup (IF IsSystemKind(ev.type) THEN Range(cs) ELSE {})

\* mutant: a fan-out loop sends to every registered target
SendableRegistered(cs, cn, c) == c \in Range(cs)

\* `connection = self.connections.get(id); if connection and connection.is_active`
Sendable(cs, cn, c) == c \in Range(cs) /\ cn[c].is_active

IdleCall ==
    [pc |-> "idle", mode |-> "none", ev |-> create_heartbeat_event, key |-> None,
     live |-> FALSE, targets |-> {}, startLen |-> 0, startActive |-> {},
     startSubs |-> {}, startGone |-> {}, visited |-> {}, cur |-> NoConn,
     failed |-> <<>>,
     failedAll |-> {}, delivered |-> {}, detached |-> FALSE, fresh |-> {}]

\* what handle_message found before it ran: was the connection subscribed
\* to the message's task, and its last_heartbeat
NoPre == [subscribed |-> FALSE, hb |-> 0]

\* no statistics were returned
NoStats == [total_connections |-> 0, active_connections |-> 0,
            users_connected |-> 0, tasks_with_subscribers |-> 0,
            connections_by_user |-> EmptyDict]

\* sum(1 for conn in self.connections.values() if conn.is_active)
RECURSIVE CountActive(_, _)
CountActive(cs, cn) ==
    IF cs = <<>> THEN 0
    ELSE (IF cn[Head(cs)].is_active THEN 1 ELSE 0) + CountActive(Tail(cs), cn)

\* mutant: every registered connection is counted as active
get_connection_statsAllActive(cs, cn, uc, ts) ==
    [total_connections |-> Len(cs),
     active_connections |-> Len(cs),
     users_connected |-> Cardinality(DOMAIN uc),
     tasks_with_subscribers |-> Cardinality(DOMAIN ts),
     connections_by_user |-> [u \in DOMAIN uc |-> Cardinality(uc[u])]]

\* WebSocketManager.get_connection_stats
get_connection_stats(cs, cn, uc, ts) ==
    [total_connections |-> Len(cs),
     active_connections |-> CountActive(cs, cn),
     users_connected |-> Cardinality(DOMAIN uc),
     tasks_with_subscribers |-> Cardinality(DOMAIN ts),
     connections_by_user |-> [u \in DOMAIN uc |-> Cardinality(uc[u])]]

\* nothing completed in the last step
NoLast == [op |-> "none", proc |-> "none", error |-> "none", k |-> IdleCall,
           stale |-> {}, msg |-> NoMsg, resp |-> NoResponse, pre |-> NoPre,
           ok |-> TRUE, stats |-> NoStats]

\* fan-out call k of coroutine p returned (e = "none") or raised e
Returned(p, k, e) == [NoLast EXCEPT !.op = "fanout", !.proc = p, !.error = e,
                         !.k = [k EXCEPT !.pc = "idle"]]

\* stop() returned (e = "none") or raised e
Stopped(e) == [NoLast EXCEPT !.op = "stop", !.proc = "stop", !.error = e]

\* a disconnect call of coroutine p completed normally or raised e
Disconnected(p, e) == [NoLast EXCEPT !.op = "disconnect", !.proc = p, !.error = e]

\* handle_message(c, m) returned r.resp or raised r.raised
Handled(c, m, r, pre) ==
    [NoLast EXCEPT !.op = "handle", !.proc = c, !.error = r.raised, !.msg = m,
                   !.resp = r.resp, !.pre = pre]

\* connect(c) raised e
ConnectRaised(c, e) == [NoLast EXCEPT !.op = "connect", !.proc = c, !.error = e]

\* connect(c) returned the connection; ok: did its CONNECT send succeed
ConnectReturned(c, ok) ==
    [NoLast EXCEPT !.op = "connect", !.proc = c, !.ok = ok]

\* The set object a fan-out loop iterates: broadcast_event iterates its own
\* local set, send_to_user / send_to_task_subscribers iterate the index's set
\* object itself (empty for good once its key was deleted).
IterObj(k, uc, ts) ==
    IF ~k.live THEN k.targets
    ELSE IF k.detached THEN {}
    ELSE IF k.mode = "task" THEN DictGet(ts, k.key)
    ELSE DictGet(uc, k.key)

\* Python set iterator: "Set changed size during iteration"
SizeChanged(k, uc, ts) == Cardinality(IterObj(k, uc, ts)) # k.startLen

\* Bookkeeping of the set objects suspended loops hold: an index change from
\* (uc, ts) to (uc2, ts2) detaches the iterated object when its key is deleted
\* and records members added to it meanwhile.
Track(cl, uc, ts, uc2, ts2) ==
    [q \in Producers |->
        LET k == cl[q]
            d == IF k.mode = "task" THEN ts ELSE uc
            d2 == IF k.mode = "task" THEN ts2 ELSE uc2
        IN IF k.pc = "sending" /\ k.live /\ ~k.detached
           THEN IF k.key \notin DOMAIN d2
                THEN [k EXCEPT !.detached = TRUE]
                ELSE [k EXCEPT !.fresh = @ \cup (d2[k.key] \ DictGet(d, k.key))]
           ELSE k]

\* mutant: the loop may come to a connection it has already been through
PendingAgain(k, obj) == obj

\* `for connection_id in <set>`: the members of the iterated set obj the
\* loop of call k has not been through; a set holds an id once however many
\* routing rules added it (target_connections.update, lines 346-355)
Pending(k, obj) == obj \ k.visited

\* Continue the fan-out loop of producer p from call record k (connection
\* objects cn2) up to its next suspension point: the next send, or the
\* disconnects of the failed connections, or the return.
Advance(p, k, cn2) ==
    LET obj == IterObj(k, user_connections, task_subscribers)
        rem == {c \in Pending(k, obj) : Sendable(connections, cn2, c)}
    IN /\ IF SizeChanged(k, user_connections, task_subscribers)
          THEN /\ call' = [call EXCEPT ![p] = IdleCall]
               /\ last' = Returned(p, k, "RuntimeError")
               /\ conn' = Canon(cn2, connections)
               /\ UNCHANGED <<connections, user_connections, task_subscribers, dc>>
          ELSE \/ \E c \in rem :
                    /\ call' = [call EXCEPT ![p] = [k EXCEPT !.pc = "sending",
                                    !.cur = c, !.visited = @ \cup {c}]]
                    /\ last' = NoLast
                    /\ conn' = Canon(cn2, connections)
                    /\ UNCHANGED <<connections, user_connections,
                                   task_subscribers, dc>>
               \/ /\ rem \subseteq k.fresh
                  /\ LET r == RunDisconnects(connections, user_connections,
                                             task_subscribers, cn2, k.failed)
                         k2 == [k EXCEPT !.visited = @ \cup obj, !.failed = r.rest,
                                         !.pc = "closing"]
                     IN /\ connections' = r.cs
                        /\ user_connections' = r.uc
                        /\ task_subscribers' = r.ts
                        /\ dc' = [dc EXCEPT ![p] = r.closing]
                        /\ call' = Track([call EXCEPT ![p] =
                                            IF r.closing = NoConn THEN IdleCall
                                            ELSE k2],
                                         user_connections, task_subscribers,
                                         r.uc, r.ts)
                        /\ last' = IF r.closing = NoConn
                                   THEN Returned(p, k2, "none") ELSE NoLast
                        /\ conn' = Canon(r.cn, r.cs)

\* the endpoint of c has run connect and c is not a key of connections: a
\* disconnect of c has completed (an id is never registered twice), or the
\* handshake of c was refused
Gone(c) == c \notin Registered /\ ep[c].pc # "idle"

\* Fresh call record of a fan-out call
NewCall(mode, ev, key, live, tg) ==
    [IdleCall EXCEPT !.pc = "sending", !.mode = mode, !.ev = ev, !.key = key,
        !.live = live, !.targets = tg, !.startLen = Cardinality(tg),
        !.startActive = {c \in Registered : conn[c].is_active},
        !.startSubs = IF ev.task_id = None THEN {}
                      ELSE DictGet(task_subscribers, ev.task_id),
        !.startGone = {c \in ConnIds : Gone(c)}]

\* manager.broadcast_event(ev) called by coroutine p
Broadcast(p, ev) ==
    IF connections = <<>>
    THEN /\ last' = Returned(p, NewCall("broadcast", ev, None, FALSE, {}), "none")
         /\ UNCHANGED <<connections, conn, user_connections, task_subscribers,
                        dc, call>>
    ELSE Advance(p, NewCall("broadcast", ev, None, FALSE,
                    Targets(ev, connections, user_connections, task_subscribers)),
                 conn)

\* manager.send_to_user / manager.send_to_task_subscribers called by p
SendTo(p, mode, key, ev) ==
    LET d == IF mode = "task" THEN task_subscribers ELSE user_connections
    IN IF key \notin DOMAIN d
       THEN /\ last' = Returned(p, NewCall(mode, ev, key, TRUE, {}), "none")
            /\ UNCHANGED <<connections, conn, user_connections, task_subscribers,
                           dc, call>>
       ELSE Advance(p, NewCall(mode, ev, key, TRUE, d[key]), conn)

\* ------------------------------------------------------------------ Init
IdleEp == [pc |-> "idle", task |-> None]

\* stop() has not been called.  pc: idle, closing (suspended in a disconnect
\* of its loop), done; rest: the snapshot not yet disconnected; joined: was
\* a connect call in progress when stop started, or made while it ran
IdleStop == [pc |-> "idle", rest |-> <<>>, joined |-> FALSE]

Init ==
    /\ connections = <<>>
    /\ conn = [c \in ConnIds |-> NoObject]
    /\ user_connections = EmptyDict
    /\ task_subscribers = EmptyDict
    /\ now = 0
    /\ ep = [c \in ConnIds |-> IdleEp]
    /\ call = [p \in Producers |-> IdleCall]
    /\ cleanup = [pc |-> "sleep", inactive |-> <<>>, stale |-> {}]
    /\ dc = [p \in Procs |-> NoConn]
    /\ stop = IdleStop
    /\ last = NoLast

\* ------------------------------------------------------------- endpoints
\* uuid4() ids are fresh; the model hands them out in a fixed order
Earlier(c) == IF c = "c2" THEN {"c1"}
              ELSE IF c = "c3" THEN {"c1", "c2"} ELSE {}

\* mutant: the id generator may return an id it has returned before
FreshIdAny(c) == TRUE

\* router line 28, `connection_id = str(uuid4())`: c is the id the endpoint
\* coroutine that starts now is given, one no earlier endpoint was given
FreshId(c) == ep[c].pc = "idle" /\ \A d \in Earlier(c) : ep[d].pc # "idle"

\* `self.connections[connection_id] = connection` (line 123): a dict keeps
\* the position of a key it already has
RegistryPut(cs, c) == IF c \in Range(cs) THEN cs ELSE Append(cs, c)

\* mutant: connect registers and indexes the connection before it knows
\* whether the handshake succeeded
ConnectEnterEager(cs, uc, cn, c, u, t0, accepted) ==
    [cs |-> RegistryPut(cs, c),
     uc |-> IF Truthy(u) THEN DictAdd(uc, u, c) ELSE uc,
     cn |-> [cn EXCEPT ![c] = NewConnection(u, t0)]]

\* manager.connect lines 114-129: `await websocket.accept()` returned
\* (accepted) or raised; only then the connection object is created,
\* registered and indexed under a truthy user_id
ConnectEnter(cs, uc, cn, c, u, t0, accepted) ==
    IF ~accepted
    THEN [cs |-> cs, uc |-> uc, cn |-> cn]
    ELSE [cs |-> RegistryPut(cs, c),
          uc |-> IF Truthy(u) THEN DictAdd(uc, u, c) ELSE uc,
          cn |-> [cn EXCEPT ![c] = NewConnection(u, t0)]]

\* router: a client opens /ws (t = None) or /ws/task/{t} with query user_id u.
\* manager.connect lines 114-140: accept returned, the connection is
\* registered and indexed, the CONNECT event send is awaited
Connect(c, u, t) ==
    /\ FreshId(c)
    /\ LET r == ConnectEnter(connections, user_connections, conn, c, u, now, TRUE)
       IN /\ connections' = r.cs
          /\ conn' = r.cn
          /\ user_connections' = r.uc
    /\ ep' = [ep EXCEPT ![c] = [pc |-> "sendConnect", task |-> t]]
    /\ call' = Track(call, user_connections, task_subscribers,
                     user_connections', task_subscribers)
    /\ stop' = IF stop.pc = "closing" THEN [stop EXCEPT !.joined = TRUE]
               ELSE stop
    /\ last' = NoLast
    /\ UNCHANGED <<task_subscribers, now, cleanup, dc>>

\* manager.connect line 114 raising: connect raises to the endpoint, whose
\* except/finally run with connection = None (no disconnect, no send)
AcceptFails(c) ==
    /\ FreshId(c)
    /\ \E u \in UserIds \cup {None} :
        LET r == ConnectEnter(connections, user_connections, conn, c, u, now,
                              FALSE)
        IN /\ connections' = r.cs
           /\ conn' = r.cn
           /\ user_connections' = r.uc
    /\ ep' = [ep EXCEPT ![c].pc = "done"]
    /\ last' = ConnectRaised(c, "AcceptError")
    /\ UNCHANGED <<task_subscribers, now, call, cleanup, dc, stop>>

\* mutant: connect takes the connection out of the registry and the user
\* index again when its CONNECT send failed
ConnectFinishRollback(cs, uc, cn, c, ok) ==
    IF ok THEN [cs |-> cs, uc |-> uc, cn |-> cn]
    ELSE [cs |-> SeqRemove(cs, c), uc |-> DiscUsers(uc, cn, c),
          cn |-> SendResult(cn, c, ok)]

\* manager.connect lines 140-142: the awaited send_event returned True or
\* False (a transport error is caught inside send_event and clears
\* is_active); its result is ignored and the connection is returned
ConnectFinish(cs, uc, cn, c, ok) ==
    [cs |-> cs, uc |-> uc, cn |-> SendResult(cn, c, ok)]

\* connect returns after the CONNECT send.  /ws goes on to receive_text;
\* /ws/task auto-subscribes (router lines 122-126) and awaits the
\* TASK_SUBSCRIBED send.
ConnectReturns(c, ok) ==
    /\ ep[c].pc = "sendConnect"
    /\ LET f == ConnectFinish(connections, user_connections, conn, c, ok)
       IN /\ connections' = f.cs
          /\ user_connections' = f.uc
          /\ IF ep[c].task = None
             THEN /\ conn' = Canon(f.cn, f.cs)
                  /\ ep' = [ep EXCEPT ![c] = [pc |-> "recv", task |-> None]]
                  /\ task_subscribers' = task_subscribers
                  /\ call' = Track(call, user_connections, task_subscribers,
                                   f.uc, task_subscribers)
             ELSE LET r == SubscribeTask(task_subscribers, f.cn, c, ep[c].task)
                  IN /\ conn' = Canon(r.cn, f.cs)
                     /\ task_subscribers' = r.ts
                     /\ ep' = [ep EXCEPT ![c] = [pc |-> "sendSub",
                                                 task |-> None]]
                     /\ call' = Track(call, user_connections, task_subscribers,
                                      f.uc, r.ts)
    /\ last' = ConnectReturned(c, ok)
    /\ UNCHANGED <<now, cleanup, dc, stop>>

\* a send awaited by the endpoint returns (TASK_SUBSCRIBED event, response,
\* error event); the endpoint awaits receive_text again
EpSent(c, ok) ==
    /\ ep[c].pc \in {"sendSub", "respond"}
    /\ conn' = Canon(SendResult(conn, c, ok), connections)
    /\ ep' = [ep EXCEPT ![c].pc = "recv"]
    /\ last' = NoLast
    /\ UNCHANGED <<connections, user_connections, task_subscribers, now, call,
                   cleanup, dc, stop>>

\* receive_text returns a client message: handle_message, then the response
\* send is awaited; for invalid JSON, and for an exception out of
\* handle_message, the error event send is awaited instead
EpRecv(c, m) ==
    /\ ep[c].pc = "recv"
    /\ IF m.type = "badjson"
       THEN /\ last' = NoLast
            /\ UNCHANGED <<conn, task_subscribers, call>>
       ELSE LET r == HandleMessage(connections, task_subscribers, conn, c, m, now)
                pre == [subscribed |-> m.task_id \in conn[c].subscribed_tasks,
                        hb |-> conn[c].last_heartbeat]
            IN /\ conn' = r.cn
               /\ task_subscribers' = r.ts
               /\ call' = Track(call, user_connections, task_subscribers,
                                user_connections, r.ts)
               /\ last' = Handled(c, m, r, pre)
    /\ ep' = [ep EXCEPT ![c].pc = "respond"]
    /\ UNCHANGED <<connections, user_connections, now, cleanup, dc, stop>>

\* receive_text raises WebSocketDisconnect: break, finally: disconnect(c)
EpClientGone(c) ==
    /\ ep[c].pc = "recv"
    /\ LET r == DisconnectEnter(connections, user_connections, task_subscribers,
                                conn, c)
       IN /\ connections' = r.cs
          /\ user_connections' = r.uc
          /\ task_subscribers' = r.ts
          /\ ep' = [ep EXCEPT ![c].pc = IF r.susp THEN "closing" ELSE "done"]
          /\ dc' = [dc EXCEPT ![c] = IF r.susp THEN c ELSE NoConn]
          /\ call' = Track(call, user_connections, task_subscribers, r.uc, r.ts)
          /\ last' = IF r.susp THEN NoLast ELSE Disconnected(c, "none")
          /\ conn' = Canon(r.cn, r.cs)
    /\ UNCHANGED <<now, cleanup, stop>>

\* ------------------------------------------------------------- producers
\* a producer (router notify_* helper, /ws/broadcast) starts a fan-out call
CallStart(ev) ==
    /\ call["prod"].pc = "idle"
    /\ \/ Broadcast("prod", ev)
       \/ /\ ev.task_id # None
          /\ SendTo("prod", "task", ev.task_id, ev)
       \/ /\ ev.user_id # None
          /\ SendTo("prod", "user", ev.user_id, ev)
    /\ UNCHANGED <<now, ep, cleanup, stop>>

\* the awaited connection.send_event of a fan-out loop returns
SendDone(p, ok) ==
    /\ call[p].pc = "sending"
    /\ LET c == call[p].cur
           k == IF ok
                THEN [call[p] EXCEPT !.delivered = @ \cup {c}, !.cur = NoConn]
                ELSE [call[p] EXCEPT !.failed = Append(@, c),
                                     !.failedAll = @ \cup {c}, !.cur = NoConn]
       IN Advance(p, k, SendResult(conn, c, ok))
    /\ UNCHANGED <<now, ep, cleanup, stop>>

\* GET /ws/stats: get_connection_stats is synchronous and only reads
GetStats ==
    /\ last' = [NoLast EXCEPT !.op = "stats", !.proc = "admin",
                  !.stats = get_connection_stats(connections, conn,
                                user_connections, task_subscribers)]
    /\ UNCHANGED <<connections, conn, user_connections, task_subscribers, now,
                   ep, call, cleanup, dc, stop>>

\* _heartbeat_loop: the sleep returns
HeartbeatTick ==
    /\ call["hb"].pc = "idle"
    /\ IF connections # <<>>
       THEN Broadcast("hb", create_heartbeat_event)
       ELSE /\ last' = NoLast
            /\ UNCHANGED <<connections, conn, user_connections,
                           task_subscribers, call, dc>>
    /\ UNCHANGED <<now, ep, cleanup, stop>>

\* ---------------------------------------------------------- cleanup loop
IsStale(cn, c, t0) == t0 - cn[c].last_heartbeat > StaleSeconds

\* the sweep of the cleanup loop that found `stale` finished (e = "none") or
\* was abandoned by exception e
Swept(stale, e) == [NoLast EXCEPT !.op = "sweep", !.proc = "cleanup",
                       !.error = e, !.stale = stale]

\* _cleanup_loop: the sleep returns, the registry is scanned and the stale
\* connections are disconnected in registry order
CleanupTick ==
    /\ cleanup.pc = "sleep"
    /\ LET inactive == SelectSeq(connections, LAMBDA c : IsStale(conn, c, now))
           r == RunDisconnects(connections, user_connections, task_subscribers,
                               conn, inactive)
       IN /\ connections' = r.cs
          /\ user_connections' = r.uc
          /\ task_subscribers' = r.ts
          /\ cleanup' = IF r.closing = NoConn
                        THEN [pc |-> "sleep", inactive |-> <<>>, stale |-> {}]
                        ELSE [pc |-> "closing", inactive |-> r.rest,
                              stale |-> Range(inactive)]
          /\ dc' = [dc EXCEPT !["cleanup"] = r.closing]
          /\ call' = Track(call, user_connections, task_subscribers, r.uc, r.ts)
          /\ last' = IF r.closing = NoConn THEN Swept(Range(inactive), "none")
                     ELSE NoLast
          /\ conn' = Canon(r.cn, r.cs)
    /\ UNCHANGED <<now, ep, stop>>

\* mutant: an exception that escapes an iteration ends the loop
LoopAfterDie(e) == IF e = "none" THEN "sleep" ELSE "dead"

\* _cleanup_loop lines 438-458: where the loop is after an iteration that
\* ended normally or with exception e (an Exception is logged inside
\* `while True`): at its next `await asyncio.sleep(60)`
LoopAfter(e) == "sleep"

\* --------------------------------------------------- disconnect, resumed
\* manager.disconnect line 173 once the awaited websocket.close() returned or
\* raised (the error is logged): `del self.connections[connection_id]`.
\* The KeyError of a connection already deleted escapes to the caller p: out
\* of the endpoint, to the producer, or into the loop's `except Exception`,
\* which drops the rest of the sweep.  ok: close returned; ~ok: it raised.
CloseDone(p, ok) ==
    /\ dc[p] # NoConn
    /\ LET c == dc[p]
           found == c \in Registered
           e == IF found THEN "none" ELSE "KeyError"
           rest == IF p \in Producers THEN call[p].failed
                   ELSE IF p = "cleanup" THEN cleanup.inactive
                   ELSE IF p = "stop" THEN stop.rest ELSE <<>>
           r == IF found
                THEN RunDisconnects(SeqRemove(connections, c), user_connections,
                                    task_subscribers, conn, rest)
                ELSE [cs |-> connections, uc |-> user_connections,
                      ts |-> task_subscribers, cn |-> conn, rest |-> <<>>,
                      closing |-> NoConn]
           fin == r.closing = NoConn
       IN /\ connections' = r.cs
          /\ user_connections' = r.uc
          /\ task_subscribers' = r.ts
          /\ dc' = [dc EXCEPT ![p] = r.closing]
          /\ ep' = IF p \in ConnIds THEN [ep EXCEPT ![p].pc = "done"] ELSE ep
          /\ cleanup' = IF p # "cleanup" THEN cleanup
                        ELSE IF fin
                        THEN [pc |-> LoopAfter(e), inactive |-> <<>>,
                              stale |-> {}]
                        ELSE [cleanup EXCEPT !.inactive = r.rest]
          /\ call' = Track(IF p \notin Producers THEN call
                           ELSE IF fin THEN [call EXCEPT ![p] = IdleCall]
                           ELSE [call EXCEPT ![p].failed = r.rest],
                           user_connections, task_subscribers, r.uc, r.ts)
          /\ stop' = IF p # "stop" THEN stop
                     ELSE IF fin THEN [stop EXCEPT !.pc = "done", !.rest = <<>>]
                     ELSE [stop EXCEPT !.rest = r.rest]
          /\ last' = [(IF p \in Producers /\ fin THEN Returned(p, call[p], e)
                      ELSE IF p = "cleanup" /\ fin THEN Swept(cleanup.stale, e)
                      ELSE IF p = "stop" /\ fin THEN Stopped(e)
                      ELSE Disconnected(p, e)) EXCEPT !.ok = ok]
          /\ conn' = Canon(r.cn, r.cs)
    /\ UNCHANGED now

\* ------------------------------------------------------------------- stop
\* lifespan shutdown: `await websocket_manager.stop()`.  Both loop tasks are
\* cancelled: each gets CancelledError at the await it is suspended in and
\* breaks out of its loop.  A cleanup sweep suspended in the close of a
\* disconnect is abandoned there (CancelledError is not an Exception, so
\* disconnect's except clause lets it through and line 173 is skipped): the
\* connection stays registered.  Then the connections registered at this
\* moment are disconnected one after the other.
StopStart ==
    /\ stop.pc = "idle"
    /\ LET r == RunDisconnects(connections, user_connections, task_subscribers,
                               conn, connections)
           fin == r.closing = NoConn
       IN /\ connections' = r.cs
          /\ user_connections' = r.uc
          /\ task_subscribers' = r.ts
          /\ conn' = Canon(r.cn, r.cs)
          /\ cleanup' = [pc |-> "cancelled", inactive |-> <<>>, stale |-> {}]
          /\ call' = Track([call EXCEPT !["hb"] =
                                [IdleCall EXCEPT !.pc = "cancelled"]],
                           user_connections, task_subscribers, r.uc, r.ts)
          /\ dc' = [dc EXCEPT !["cleanup"] = NoConn, !["hb"] = NoConn,
                              !["stop"] = r.closing]
          /\ stop' = [pc |-> IF fin THEN "done" ELSE "closing",
                      rest |-> r.rest,
                      joined |-> \E c \in ConnIds : ep[c].pc = "sendConnect"]
          /\ last' = IF fin THEN Stopped("none") ELSE NoLast
    /\ UNCHANGED <<now, ep>>

\* ------------------------------------------------------------------ clock
Tick ==
    /\ now + ClockStep <= MaxClock
    /\ now' = now + ClockStep
    /\ last' = NoLast
    /\ UNCHANGED <<connections, conn, user_connections, task_subscribers, ep,
                   call, cleanup, dc, stop>>

\* the endpoint coroutines of router.py, for clients that connect with a
\* user_id in U and send the messages M
EndpointStep(U, M) ==
    \/ \E c \in TwoClients, u \in U, t \in TaskIds \cup {None} :
            Connect(c, u, t)
    \/ \E c \in TwoClients : AcceptFails(c)
    \/ \E c \in TwoClients, ok \in BOOLEAN : ConnectReturns(c, ok)
    \/ \E c \in TwoClients, ok \in BOOLEAN : EpSent(c, ok)
    \/ \E c \in TwoClients, m \in M : EpRecv(c, m)
    \/ \E c \in TwoClients : EpClientGone(c)

\* Registry and indices: the endpoints and the cleanup loop (no producer
\* publishes an event)
NextRegistry ==
    \/ EndpointStep(UserIds \cup {None}, Msgs)
    \/ CleanupTick
    \/ \E p \in Procs, ok \in BOOLEAN : CloseDone(p, ok)
    \/ Tick

SpecRegistry == Init /\ [][NextRegistry]_vars

\* Fan-out: the endpoints, the producers and the heartbeat loop (the clock
\* stands still, so the cleanup loop finds nothing stale)
NextFanout ==
    \/ EndpointStep({"u1", None}, SubMsgs)
    \/ \E ev \in Events : CallStart(ev)
    \/ \E p \in Producers, ok \in BOOLEAN : SendDone(p, ok)
    \/ HeartbeatTick
    \/ \E p \in Procs, ok \in BOOLEAN : CloseDone(p, ok)

SpecFanout == Init /\ [][NextFanout]_vars

\* ---------------------------------------------------------- hung transport
\* the connection whose transport accepts a fan-out send and never completes it
Hung == "c1"

\* the awaited connection.send_event of a fan-out loop returns, on every
\* transport but the hung one
SendDoneLive(p, ok) ==
    /\ call[p].cur # Hung
    /\ SendDone(p, ok)

\* events published while a transport hangs
HungEvents == {Event("error", None, None), Event("task_updated", "t1", "u1")}

\* Fan-out with a hung transport: every send and every close on the other
\* transports completes
NextHung ==
    \/ EndpointStep({"u1"}, SubMsgs)
    \/ \E ev \in HungEvents : CallStart(ev)
    \/ \E p \in Producers, ok \in BOOLEAN : SendDoneLive(p, ok)
    \/ HeartbeatTick
    \/ \E p \in Procs, ok \in BOOLEAN : CloseDone(p, ok)

SpecHung ==
    /\ Init /\ [][NextHung]_vars
    /\ WF_vars(\E p \in Producers, ok \in BOOLEAN : SendDoneLive(p, ok))
    /\ WF_vars(\E p \in Procs, ok \in BOOLEAN : CloseDone(p, ok))

\* Reaping: clients that subscribe, unsubscribe, send heartbeats or fall
\* silent, and the cleanup loop
NextReap ==
    \/ EndpointStep({"u1", None}, SubMsgs \cup {Msg("heartbeat", None, None)})
    \/ CleanupTick
    \/ \E p \in Procs, ok \in BOOLEAN : CloseDone(p, ok)
    \/ Tick

\* the scheduling the event loop gives the cleanup loop: time passes, the
\* loop's sleep returns, and every awaited transport close returns or fails
SpecReap ==
    /\ Init /\ [][NextReap]_vars
    /\ WF_vars(Tick)
    /\ WF_vars(CleanupTick)
    /\ \A p \in Procs : WF_vars(\E ok \in BOOLEAN : CloseDone(p, ok))

\* Message handling: clients that send every shape of inbound message, while
\* time passes and the cleanup loop runs
NextMessages ==
    \/ EndpointStep({"u1"}, AllMsgs)
    \/ CleanupTick
    \/ \E p \in Procs, ok \in BOOLEAN : CloseDone(p, ok)
    \/ Tick

SpecMessages == Init /\ [][NextMessages]_vars

\* the subscribe and unsubscribe messages for two tasks
TwoTaskMsgs == {Msg(ty, t, None) :
                   ty \in {"subscribe_task", "unsubscribe_task"}, t \in Uuids}

\* Subscriptions: clients that subscribe to and unsubscribe from two tasks
NextSubs ==
    \/ EndpointStep({"u1"}, TwoTaskMsgs)
    \/ \E p \in Procs, ok \in BOOLEAN : CloseDone(p, ok)

SpecSubs == Init /\ [][NextSubs]_vars

\* the steps of the /ws/task/{task_id} endpoint coroutines, opened with a
\* well-formed task id and a query user id from U, of clients that send the
\* messages of M
TaskEndpointStep(U, M) ==
    \/ \E c \in TwoClients, u \in U, t \in TaskIds : Connect(c, u, t)
    \/ \E c \in TwoClients : AcceptFails(c)
    \/ \E c \in TwoClients, ok \in BOOLEAN : ConnectReturns(c, ok)
    \/ \E c \in TwoClients, ok \in BOOLEAN : EpSent(c, ok)
    \/ \E c \in TwoClients, m \in M : EpRecv(c, m)
    \/ \E c \in TwoClients : EpClientGone(c)

\* the messages of clients that never unsubscribe
KeepMsgs == {Msg("heartbeat", None, None), Msg("subscribe_task", "t1", None)}

\* Task endpoint: clients of /ws/task/t1 that never unsubscribe, while time
\* passes and the cleanup loop runs
NextTaskEp ==
    \/ TaskEndpointStep({"u1"}, KeepMsgs)
    \/ CleanupTick
    \/ \E p \in Procs, ok \in BOOLEAN : CloseDone(p, ok)
    \/ Tick

SpecTaskEp == Init /\ [][NextTaskEp]_vars

\* Statistics: the endpoints and an administrator polling /ws/stats
NextStats ==
    \/ EndpointStep({"u1", None}, SubMsgs)
    \/ GetStats
    \/ \E p \in Procs, ok \in BOOLEAN : CloseDone(p, ok)

SpecStats == Init /\ [][NextStats]_vars

\* events of a system kind and of another kind, scoped to a task, to a user
\* or to both
RoutingEvents == {Event("error", "t1", "u1"), Event("task_updated", "t1", None),
                  Event("task_updated", None, "u1")}

\* Routing: the endpoints and a producer that publishes RoutingEvents with
\* broadcast_event, send_to_task_subscribers and send_to_user
NextRouting ==
    \/ EndpointStep({"u1", None}, SubMsgs)
    \/ \E ev \in RoutingEvents : CallStart(ev)
    \/ \E ok \in BOOLEAN : SendDone("prod", ok)
    \/ \E p \in Procs, ok \in BOOLEAN : CloseDone(p, ok)

SpecRouting == Init /\ [][NextRouting]_vars

\* Shutdown: the endpoints, both loops, the clock and the application
\* stopping the manager
NextStop ==
    \/ EndpointStep({"u1"}, SubMsgs)
    \/ CleanupTick
    \/ HeartbeatTick
    \/ \E p \in Procs, ok \in BOOLEAN : CloseDone(p, ok)
    \/ Tick
    \/ StopStart

SpecStop == Init /\ [][NextStop]_vars

\* the event published to the subscribers of task t1
DropEvent == Event("task_updated", "t1", None)

\* send_to_task_subscribers(t1, DropEvent) called by the producer once some
\* connection has been disconnected
DropCall ==
    /\ call["prod"].pc = "idle"
    /\ \E c \in ConnIds : Gone(c)
    /\ SendTo("prod", "task", "t1", DropEvent)
    /\ UNCHANGED <<now, ep, cleanup, stop>>

\* Dropped subscribers: three clients of /ws/task/t1 that unsubscribe or go
\* away, and a producer publishing DropEvent to the subscribers of t1 after
\* a disconnect.  No handshake is refused and the endpoints' own sends
\* succeed.
NextDrop ==
    \/ \E c \in ConnIds : Connect(c, None, "t1")
    \/ \E c \in ConnIds : ConnectReturns(c, TRUE)
    \/ \E c \in ConnIds : EpSent(c, TRUE)
    \/ \E c \in ConnIds : EpRecv(c, Msg("unsubscribe_task", "t1", None))
    \/ \E c \in ConnIds : EpClientGone(c)
    \/ DropCall
    \/ \E ok \in BOOLEAN : SendDone("prod", ok)
    \/ \E p \in Procs, ok \in BOOLEAN : CloseDone(p, ok)

SpecDrop == Init /\ [][NextDrop]_vars

\* ---------------------------------------------------------------- claims
\* no disconnect is suspended between its index removal and its registry removal
Quiescent == \A p \in Procs : dc[p] = NoConn

IndexedIds ==
    UNION {user_connections[u] : u \in DOMAIN user_connections}
    \cup UNION {task_subscribers[t] : t \in DOMAIN task_subscribers}

C3_UserIndexExact ==
    Quiescent =>
        \A u \in UserIds :
            DictGet(user_connections, u)
                = {c \in Registered : conn[c].user_id = u}

\* C3 amended: the same for every non-empty user id u; an empty user id is
\* treated as no user id and has no entry in user_connections.
C3_UserIndexExactNonEmpty ==
    /\ EmptyStr \notin DOMAIN user_connections
    /\ Quiescent =>
        \A u \in UserIds :
            Truthy(u) => DictGet(user_connections, u)
                            = {c \in Registered : conn[c].user_id = u}

\* C3 witness: a disconnect has just completed while another connection of
\* user u1 is still registered and indexed
C3_Witness ==
    /\ last.op = "disconnect"
    /\ Quiescent
    /\ \E c \in Registered : conn[c].user_id = "u1"
    /\ \E d \in ConnIds : ep[d].pc = "done" /\ d \notin Registered

\* C4: disconnect is atomic: no coroutine is ever suspended inside
\* disconnect(c) with c already out of the indices and still in the registry,
\* which is a state where every other operation can run.
C4_DisconnectAtomic ==
    \A p \in Procs : dc[p] # NoConn => dc[p] \notin Registered

C6_OverlappingDisconnectsComplete ==
    last.op \in {"disconnect", "sweep", "fanout"} => last.error # "KeyError"

\* the sends a completed fan-out call issued
Attempted(k) == k.delivered \cup k.failedAll

\* C7 as stated: a broadcast_event of an event scoped only to task T sends it
\* to exactly the members of task_subscribers[T] as of the call's start (those
\* still registered and active when their send is issued), to no others.
C7_TaskScopedExact ==
    (last.op = "fanout" /\ last.k.mode = "broadcast"
        /\ last.k.ev.task_id # None /\ last.k.ev.user_id = None)
    => /\ Attempted(last.k) \subseteq last.k.startSubs
       /\ \A c \in last.k.startSubs \ Attempted(last.k) :
            ~Sendable(connections, conn, c)

\* C7 amended: the same for every event of a non-system kind (a kind other
\* than SYSTEM_STATUS and ERROR).
C7_TaskScopedExactNonSystem ==
    (last.op = "fanout" /\ last.k.mode = "broadcast"
        /\ last.k.ev.task_id # None /\ last.k.ev.user_id = None
        /\ ~(last.k.ev.type \in SystemKinds))
    => /\ last.error = "none"
       /\ Attempted(last.k) \subseteq last.k.startSubs
       /\ \A c \in last.k.startSubs \ Attempted(last.k) :
            ~Sendable(connections, conn, c)

\* C7 witness: a task-scoped non-system broadcast returned after delivering
\* to a subscriber while a registered active non-subscriber got nothing
C7_Witness ==
    /\ last.op = "fanout" /\ last.k.mode = "broadcast"
    /\ last.k.ev = Event("task_updated", "t1", None)
    /\ last.k.delivered # {}
    /\ \E c \in last.k.startActive \ last.k.startSubs :
            Sendable(connections, conn, c)

\* C8: a broadcast_event of an event with neither task_id nor user_id,
\* whatever its kind, is sent to every connection registered and active when
\* the call starts (unless the connection is gone by the time of its send).
C8_UnscopedToAll ==
    (last.op = "fanout" /\ last.k.mode = "broadcast"
        /\ last.k.ev.task_id = None /\ last.k.ev.user_id = None)
    => \A c \in last.k.startActive \ Attempted(last.k) :
            ~Sendable(connections, conn, c)

\* C9: a heartbeat tick with at least one registered connection sends the
\* heartbeat event to every registered active connection.
C9_HeartbeatToAll ==
    (last.op = "fanout" /\ last.proc = "hb")
    => /\ last.k.ev.type = "heartbeat"
       /\ \A c \in last.k.startActive : c \in Attempted(last.k)

\* C10: a fan-out call in which the send to one target failed does not
\* raise, has sent to every other target (still registered and active at its
\* turn), and leaves the failed connections, and only them, out of the
\* registry and both indices.
C10_PartialFailureIsolated ==
    [][(last'.op = "fanout" /\ last'.k.failedAll # {}
            /\ Cardinality(last'.k.targets) >= 2)
       => /\ last'.error = "none"
          /\ \A c \in last'.k.targets \ Attempted(last'.k) :
                ~Sendable(connections', conn', c)
          /\ last'.k.failedAll \cap (Registered' \cup IndexedIds') = {}
          /\ Registered \ Registered' \subseteq last'.k.failedAll]_vars

\* C11: broadcast_event, send_to_user and send_to_task_subscribers never
\* raise to the producer, also when connections connect, disconnect,
\* subscribe or unsubscribe while the call is suspended in a send.
C11_FanoutNeverRaises ==
    last.op = "fanout" => last.error = "none"

\* C12: when the send of a broadcast to one target never completes, the send
\* to every other target (still registered and active) is issued and
\* eventually completes.
C12_HungTargetDoesNotBlock ==
    \A c \in ConnIds \ {Hung} :
        (/\ call["prod"].pc = "sending" /\ call["prod"].mode = "broadcast"
         /\ call["prod"].cur = Hung
         /\ c \in call["prod"].targets \ call["prod"].visited
         /\ Sendable(connections, conn, c))
        ~> (c \in Attempted(call["prod"]) \/ ~Sendable(connections, conn, c))

\* C13: every connection that is stale when a cleanup tick scans the registry
\* is disconnected by that tick, the first and all the others: once the
\* tick's sweep is over, none of them is left in connections.
C13_StaleAllReaped ==
    last.op = "sweep" => last.stale \cap Registered = {}

HandledRegistered == last'.op = "handle" /\ last'.proc \in Registered

\* C15: a subscribe_task for a task the connection is already subscribed to,
\* and an unsubscribe_task for a task it is not subscribed to, leave the
\* connection's subscribed_tasks and task_subscribers as they were (no entry
\* is created for the task).
C15_SubscribeIdempotent ==
    [][\A t \in TaskIds :
          (HandledRegistered /\ last'.msg.task_id = t)
          => LET c == last'.proc
                 already == /\ t \in conn[c].subscribed_tasks
                            /\ c \in DictGet(task_subscribers, t)
                 absent == t \notin conn[c].subscribed_tasks
             IN ((last'.msg.type = "subscribe_task" /\ already)
                 \/ (last'.msg.type = "unsubscribe_task" /\ absent))
                => /\ last'.resp.success
                   /\ task_subscribers' = task_subscribers
                   /\ conn'[c].subscribed_tasks = conn[c].subscribed_tasks]_vars

\* C15 witness: a second subscribe_task for the same task was handled
\* successfully and the connection is subscribed, in its own set and in the index
C15_Witness ==
    /\ last.op = "handle" /\ last.msg.type = "subscribe_task"
    /\ last.resp.success /\ last.pre.subscribed
    /\ last.proc \in Registered
    /\ "t1" \in conn[last.proc].subscribed_tasks
    /\ last.proc \in DictGet(task_subscribers, "t1")

\* C16: handle_message for a connection id that is not registered, or with a
\* payload that does not parse into a control message, returns an error
\* Response (success = false) and changes nothing: connections, both
\* indices, every subscribed_tasks and every last_heartbeat stay as they were.
C16_RejectsWithoutChange ==
    [][(last'.op = "handle"
            /\ (last'.proc \notin Registered \/ ~Parses(last'.msg)))
       => /\ last'.error = "none"
          /\ ~last'.resp.success
          /\ UNCHANGED <<connections, user_connections, task_subscribers,
                         conn>>]_vars

\* C17: a parsed message of a registered connection with a type outside
\* subscribe_task, unsubscribe_task, heartbeat and get_status, or a
\* subscribe/unsubscribe whose task_id is missing or not a well-formed id,
\* gets an error Response (for an unknown type, one whose error text names
\* the type), leaves the connection registered and as active as it was, and
\* leaves task_subscribers, user_connections and every subscribed_tasks
\* unchanged.
C17_BadRequestRejected ==
    [][(/\ HandledRegistered /\ Parses(last'.msg)
        /\ \/ last'.msg.type \notin KnownTypes
           \/ /\ last'.msg.type \in {"subscribe_task", "unsubscribe_task"}
              /\ last'.msg.task_id \notin TaskIds)
       => /\ last'.error = "none"
          /\ ~last'.resp.success
          /\ last'.msg.type = "bogus"
                => last'.resp.error = "Unknown message type: bogus"
          /\ UNCHANGED <<connections, user_connections, task_subscribers>>
          /\ conn'[last'.proc].is_active = conn[last'.proc].is_active
          /\ \A d \in ConnIds :
                conn'[d].subscribed_tasks = conn[d].subscribed_tasks]_vars

\* C17 witness: a subscribed, active connection got the error response for
\* an unknown message type and is still registered, active and subscribed
C17_Witness ==
    /\ last.op = "handle" /\ last.msg.type = "bogus"
    /\ ~last.resp.success /\ last.resp.type = "bogus"
    /\ last.proc \in Registered
    /\ conn[last.proc].is_active
    /\ "t1" \in conn[last.proc].subscribed_tasks
    /\ last.proc \in DictGet(task_subscribers, "t1")

\* C18: every handle_message call for a registered connection whose payload
\* parses sets that connection's last_heartbeat to the current time,
\* whatever the message type and whether the dispatch succeeds or returns an
\* error; no other connection's last_heartbeat changes.
C18_HeartbeatBumped ==
    [][(HandledRegistered /\ Parses(last'.msg))
       => /\ conn'[last'.proc].last_heartbeat = now
          /\ \A d \in ConnIds \ {last'.proc} :
                conn'[d].last_heartbeat = conn[d].last_heartbeat]_vars

\* C18 witness: a message that got an error response moved its connection's
\* last_heartbeat from 0 to the current time while another registered
\* connection kept its older last_heartbeat
C18_Witness ==
    /\ last.op = "handle" /\ Parses(last.msg) /\ ~last.resp.success
    /\ last.proc \in Registered
    /\ last.pre.hb = 0 /\ now > 0
    /\ conn[last.proc].last_heartbeat = now
    /\ \E d \in Registered \ {last.proc} : conn[d].last_heartbeat = 0

\* C19: the Response to a message that parses, handled for a registered
\* connection, carries the request_id of the message (None when the message
\* had none), on success and on every error path.
C19_RequestIdEchoed ==
    (last.op = "handle" /\ last.proc \in Registered /\ Parses(last.msg))
    => /\ last.error = "none"
       /\ last.resp.request_id = last.msg.request_id

\* C19 witness: an error response that carries the request id of its message
C19_Witness ==
    /\ last.op = "handle" /\ last.proc \in Registered /\ Parses(last.msg)
    /\ ~last.resp.success
    /\ last.msg.request_id = "r1" /\ last.resp.request_id = "r1"

\* C20: when the accept handshake fails inside connect, the failure is
\* raised to the caller and the manager state is unchanged: nothing is added
\* to connections or user_connections and no event is sent (the endpoint
\* ends without awaiting a send).
C20_AcceptFailureLeavesNoTrace ==
    [][(last'.op = "connect" /\ last'.error # "none")
       => /\ UNCHANGED <<connections, user_connections, task_subscribers,
                         conn>>
          /\ last'.proc \notin Registered'
          /\ ep'[last'.proc].pc = "done"]_vars

\* C20 witness: a handshake failed while another connection is registered
\* and indexed under its user
C20_Witness ==
    /\ last.op = "connect" /\ last.error = "AcceptError"
    /\ last.proc \notin Registered
    /\ \E d \in Registered : d \in DictGet(user_connections, "u1")

\* the step is a successful connect of c: accept returned, c is registered
\* and its CONNECT event send is awaited
ConnectStep(c) == ep[c].pc = "idle" /\ ep'[c].pc = "sendConnect"

\* what a successful connect of c changes when `given` says whether its
\* user_id counts as given: c is appended to connections and added to its
\* user's entry, the connected event goes to c only, and no other
\* connection's object, endpoint, registry or index entry changes
ConnectFrame(c, given) ==
    /\ connections' = Append(connections, c)
    /\ \A x \in UserIds :
          DictGet(user_connections', x)
            = DictGet(user_connections, x)
              \cup (IF x = conn'[c].user_id /\ given THEN {c} ELSE {})
    /\ task_subscribers' = task_subscribers
    /\ \A d \in ConnIds \ {c} : conn'[d] = conn[d] /\ ep'[d] = ep[d]
    /\ \A p \in Producers :
          call'[p].pc = call[p].pc /\ call'[p].cur = call[p].cur

\* C21 as stated: a successful connect adds the connection to connections,
\* adds its id to user_connections[user_id] exactly when a user_id was given
\* (one other than None), sends the connected event to the new connection
\* only and changes no other connection's registry or index entries.
C21_ConnectFrame ==
    [][\A c \in ConnIds :
          ConnectStep(c) => ConnectFrame(c, conn'[c].user_id # None)]_vars

\* C21 amended: the same, the id being added to user_connections[user_id]
\* exactly when the user_id given is a non-empty string.
C21_ConnectFrameNonEmpty ==
    [][\A c \in ConnIds :
          ConnectStep(c)
          => ConnectFrame(c, conn'[c].user_id \notin {None, EmptyStr})]_vars

\* C21 witness: a second connection of user u1 has just connected and both
\* connections are in the user's entry
C21_Witness ==
    /\ ep["c2"].pc = "sendConnect" /\ conn["c2"].user_id = "u1"
    /\ "c1" \in Registered /\ conn["c1"].user_id = "u1"
    /\ "t1" \in conn["c1"].subscribed_tasks
    /\ DictGet(user_connections, "u1") = {"c1", "c2"}

\* the step is the return of connect(c): the awaited CONNECT send finished
ConnectReturnStep(c) ==
    ep[c].pc = "sendConnect" /\ ep'[c].pc # "sendConnect"

C23_ClosedExactlyOnce ==
    [][\A c \in ConnIds :
          (c \in Registered /\ c \notin Registered') => conn[c].closes = 1]_vars

\* the step resumes the disconnect of coroutine p after its awaited
\* websocket.close() raised
CloseRaisedStep(p) == dc[p] # NoConn /\ dc'[p] # dc[p] /\ ~last'.ok

\* C24: if the transport close raises during disconnect, disconnect does not
\* raise and the connection is removed from connections, user_connections
\* and task_subscribers.
C24_CloseErrorStillRemoves ==
    [][\A p \in Procs :
          CloseRaisedStep(p)
          => /\ last'.error = "none"
             /\ dc[p] \notin Registered' \cup IndexedIds']_vars

\* C25: in every reachable state no key of task_subscribers and no key of
\* user_connections maps to an empty set: an unsubscribe or disconnect that
\* removes the last member of an entry removes the entry itself.
C25_NoEmptyEntry ==
    /\ \A t \in DOMAIN task_subscribers : task_subscribers[t] # {}
    /\ \A u \in DOMAIN user_connections : user_connections[u] # {}

\* C25 witness: a registered connection that was the only subscriber of t1
\* has just unsubscribed and the entry of t1 is gone, while its user's entry
\* is still there
C25_Witness ==
    /\ last.op = "handle" /\ last.msg.type = "unsubscribe_task"
    /\ last.msg.task_id = "t1" /\ last.pre.subscribed
    /\ last.proc \in Registered
    /\ "t1" \notin DOMAIN task_subscribers
    /\ last.proc \in DictGet(user_connections, "u1")

C27_AtMostOncePerConnection ==
    \A p \in Producers :
        (call[p].pc = "sending" /\ call[p].mode = "broadcast")
        => call[p].cur \notin Attempted(call[p])

\* C27 witness: a broadcast of an event scoped to task t1 and user u1 has
\* returned after delivering it to two connections that are both
\* subscribed to t1 and both of user u1
C27_Witness ==
    /\ last.op = "fanout" /\ last.k.mode = "broadcast"
    /\ last.k.ev = Event("task_updated", "t1", "u1")
    /\ last.k.delivered = {"c1", "c2"}
    /\ last.k.startSubs = {"c1", "c2"}
    /\ DictGet(user_connections, "u1") = {"c1", "c2"}

\* C28: get_connection_stats changes no manager or connection state, and
\* the snapshot it returns matches the state: total_connections is the size
\* of connections, active_connections the number of registered connections
\* with is_active true (never more than total_connections), users_connected
\* the number of keys of user_connections and tasks_with_subscribers the
\* number of keys of task_subscribers.
C28_StatsReadOnlySnapshot ==
    [][last'.op = "stats"
       => /\ UNCHANGED <<connections, conn, user_connections,
                         task_subscribers, now, ep, call, cleanup, dc,
                         stop>>
          /\ last'.stats.total_connections = Cardinality(Registered)
          /\ last'.stats.active_connections
               = Cardinality({c \in Registered : conn[c].is_active})
          /\ last'.stats.active_connections <= last'.stats.total_connections
          /\ last'.stats.users_connected
               = Cardinality({u \in UserIds : DictGet(user_connections, u) # {}})
          /\ last'.stats.tasks_with_subscribers
               = Cardinality({t \in TaskIds : DictGet(task_subscribers, t) # {}})
      ]_vars

\* C28 witness: statistics taken with two connections registered, one of
\* them inactive after a failed send, one user connected and one task
\* subscribed to
C28_Witness ==
    /\ last.op = "stats"
    /\ last.stats.total_connections = 2
    /\ last.stats.active_connections = 1
    /\ last.stats.users_connected = 1
    /\ last.stats.tasks_with_subscribers = 1

\* an iteration of the cleanup loop has just been ended by an exception
SweepFailed == last.op = "sweep" /\ last.error # "none"

\* the cleanup loop has run a tick: it is disconnecting what the tick found
\* stale, or the tick's sweep has completed
SweepRan == cleanup.pc = "closing" \/ (last.op = "sweep" /\ last.error = "none")

\* C29: an exception raised inside one iteration of the heartbeat loop or
\* the cleanup loop (other than cancellation) does not terminate the loop:
\* the loop runs its next scheduled tick, and only cancellation ends it
\* (where nothing cancels, neither loop ever ends).
C29_LoopSurvivesException ==
    /\ [](cleanup.pc \in {"sleep", "closing"}
          /\ call["hb"].pc \in {"idle", "sending", "closing"})
    /\ SweepFailed ~> SweepRan

\* C29 witness: a sweep was abandoned by the KeyError of a disconnect while
\* a stale connection it had not reached is still registered
C29_Witness ==
    /\ SweepFailed /\ last.error = "KeyError"
    /\ last.stale \cap Registered # {}
    /\ cleanup.pc = "sleep"

\* C30: stop() cancels both background loops and disconnects every
\* registered connection: once stop has been called both loops are
\* cancelled, so no heartbeat or cleanup tick runs afterwards, and when stop
\* returns without a concurrent connect it has not raised and connections,
\* user_connections and task_subscribers are all empty.
C30_StopEmptiesManager ==
    /\ stop.pc # "idle"
       => cleanup.pc = "cancelled" /\ call["hb"].pc = "cancelled"
    /\ (last.op = "stop" /\ ~stop.joined)
       => /\ last.error = "none"
          /\ connections = <<>>
          /\ user_connections = EmptyDict
          /\ task_subscribers = EmptyDict

\* C31: for every registered connection, last_heartbeat never decreases
\* across any sequence of operations while the connection is registered
\* (the clock being non-decreasing).
C31_HeartbeatMonotone ==
    [][\A c \in ConnIds :
          (c \in Registered /\ c \in Registered')
          => conn'[c].last_heartbeat >= conn[c].last_heartbeat]_vars

\* C31 witness: a connection registered at time 0 has just had a message
\* handled after the clock advanced, and its last_heartbeat moved forward
C31_Witness ==
    /\ last.op = "handle" /\ last.proc \in Registered
    /\ last.pre.hb = 0 /\ now > 0
    /\ conn[last.proc].last_heartbeat = now

\* the step is a connect that registers c: its endpoint starts awaiting the
\* send of the connected event
Registers(c) == ep'[c].pc = "sendConnect" /\ ep[c].pc # "sendConnect"

CallStarts(p) ==
    /\ call[p].pc = "idle"
    /\ call'[p].pc = "sending" \/ (last'.op = "fanout" /\ last'.proc = p)

\* the record of the call that the step starts
StartedCall(p) == IF call'[p].pc = "sending" THEN call'[p] ELSE last'.k

\* C33: broadcast_event of an event of a system kind targets every
\* registered active connection, also when the event carries a task_id
\* and/or user_id: the target set is the union of the task's subscribers,
\* the user's connections and all connections, and when the call is over
\* every connection that was registered and active at its start has been
\* sent the event or is no longer registered and active.
C33_SystemKindToAll ==
    [][/\ \A p \in Producers :
            (/\ CallStarts(p) /\ connections # <<>>
             /\ StartedCall(p).mode = "broadcast"
             /\ IsSystemKind(StartedCall(p).ev.type))
            => /\ StartedCall(p).targets
                    = DictGet(task_subscribers, StartedCall(p).ev.task_id)
                      \cup DictGet(user_connections, StartedCall(p).ev.user_id)
                      \cup Registered
               /\ {c \in Registered : conn[c].is_active}
                    \subseteq StartedCall(p).targets
       /\ (/\ last'.op = "fanout" /\ last'.k.mode = "broadcast"
           /\ IsSystemKind(last'.k.ev.type))
          => \A c \in last'.k.startActive \ Attempted(last'.k) :
                ~Sendable(connections', conn', c)]_vars

\* C33 witness: a broadcast of an error event scoped to task t1 and user u1
\* has returned after delivering it to both connections, one of which is
\* neither subscribed to t1 nor of user u1
C33_Witness ==
    /\ last.op = "fanout" /\ last.k.mode = "broadcast"
    /\ last.k.ev = Event("error", "t1", "u1")
    /\ last.k.delivered = {"c1", "c2"}
    /\ \E c \in Registered :
          /\ c \notin last.k.startSubs
          /\ c \notin DictGet(user_connections, "u1")
          /\ conn[c].user_id = None

\* call k is a send_to_task_subscribers or send_to_user call, or the
\* broadcast_event of an event scoped only to a task with a non-system kind
OneIndexCall(k) ==
    \/ k.mode \in {"task", "user"}
    \/ /\ k.mode = "broadcast" /\ ~IsSystemKind(k.ev.type)
       /\ k.ev.task_id # None /\ k.ev.user_id = None

\* C34: send_to_task_subscribers(T, e) delivers e to exactly the active
\* connections in task_subscribers[T] and send_to_user(u, e) to exactly the
\* active connections in user_connections[u], whatever e's kind and scoping
\* fields, and for an event scoped only to T with a non-system kind
\* broadcast_event(e) delivers to the same connections: in each of these
\* calls the connections sent to are members of the index entry as of the
\* call's start, and every such member is sent the event unless it is no
\* longer registered and active.
C34_OneIndexLookup ==
    (last.op = "fanout" /\ OneIndexCall(last.k))
    => /\ Attempted(last.k) \subseteq last.k.targets
       /\ \A c \in last.k.targets \ Attempted(last.k) :
            ~Sendable(connections, conn, c)

\* ------------------------------------------------------------------- C35
\* the user ids another connection may have been opened with
OtherUsers == {None, "u1", "u2"}

\* the task index after connection d's subscriptions are replaced by S
Resubscribed(ts, d, S) ==
    LET m(t) == (DictGet(ts, t) \ {d}) \cup (IF t \in S THEN {d} ELSE {})
    IN [t \in {x \in DOMAIN ts \cup S : m(x) # {}} |-> m(t)]

\* a get_status message of a registered connection was answered
StatusAnswered ==
    /\ last.op = "handle" /\ last.msg.type = "get_status"
    /\ last.resp.success /\ last.proc \in Registered

\* C35: the get_status reply depends only on the requester's own fields and
\* on the number of registered connections: in every state that differs from
\* the one the reply was computed in only by the user id or the subscriptions
\* of another connection, the same request gets the same reply.
C35_StatusOwnDataOnly ==
    StatusAnswered
    => \A d \in Registered \ {last.proc}, u \in OtherUsers, S \in SUBSET TaskIds :
         HandleMessage(connections, Resubscribed(task_subscribers, d, S),
                       [conn EXCEPT ![d].user_id = u,
                                    ![d].subscribed_tasks = S],
                       last.proc, last.msg, now).resp = last.resp

\* a get_status reply given while another connection of the same user, with
\* a subscription of its own, is registered: the reply names neither
C35_Witness ==
    /\ StatusAnswered
    /\ \E d \in Registered \ {last.proc} :
         /\ conn[d].user_id = "u1" /\ conn[d].subscribed_tasks = {"t1"}
    /\ last.resp.data.connection_id = last.proc
    /\ last.resp.data.subscribed_tasks = {}
    /\ last.resp.data.total_connections = 2

\* ------------------------------------------------------------------- C38
\* handle_message answered a subscribe_task or unsubscribe_task message of
\* connection c for task t with a success response
SubHandled(c, t) ==
    /\ last'.op = "handle" /\ last'.proc = c /\ last'.resp.success
    /\ last'.msg.type \in {"subscribe_task", "unsubscribe_task"}
    /\ last'.msg.task_id = t

\* C38: a subscribe_task or unsubscribe_task message handled for connection
\* c and task t changes only c's subscribed_tasks, task_subscribers[t] and
\* c's last_heartbeat: the registry, the user index, every other connection
\* object and every other task's subscribers are unchanged, and the reply
\* data is {task_id: t, subscribed: true} for subscribe_task and
\* {task_id: t, subscribed: false} for unsubscribe_task.
C38_SubscribeFrame ==
    [][\A c \in ConnIds, t \in Uuids :
          SubHandled(c, t)
          => /\ connections' = connections
             /\ user_connections' = user_connections
             /\ \A d \in ConnIds \ {c} : conn'[d] = conn[d]
             /\ conn'[c] = [conn[c] EXCEPT
                                !.subscribed_tasks = conn'[c].subscribed_tasks,
                                !.last_heartbeat = conn'[c].last_heartbeat]
             /\ \A x \in Uuids \ {t} :
                   DictGet(task_subscribers', x) = DictGet(task_subscribers, x)
             /\ last'.resp.data =
                   [task_id |-> t,
                    subscribed |-> (last'.msg.type = "subscribe_task")]]_vars

\* c1 has just subscribed to t2 while c2 is subscribed to t1 and c1 to both:
\* t1's subscribers and c2 are as they were
C38_Witness ==
    /\ last.op = "handle" /\ last.proc = "c1" /\ last.resp.success
    /\ last.msg.type = "subscribe_task" /\ last.msg.task_id = "t2"
    /\ last.resp.data = [task_id |-> "t2", subscribed |-> TRUE]
    /\ DictGet(task_subscribers, "t1") = {"c1", "c2"}
    /\ DictGet(task_subscribers, "t2") = {"c1"}
    /\ conn["c2"].subscribed_tasks = {"t1"}

\* ------------------------------------------------------------------- C36
\* some coroutine is inside disconnect(c), awaiting the transport close
BeingDisconnected(c) == \E p \in Procs : dc[p] = c

\* the endpoint coroutine of c is past connect and its client has not gone
EndpointServing(c) == ep[c].pc \in {"sendSub", "recv", "respond"}

SendFailed(c) == c \in Registered /\ ~conn[c].is_active

\* the fan-out call of p issues a send to c in this step
NewAttempt(p, c) ==
    /\ call'[p].pc = "sending" /\ call'[p].cur = c
    /\ ~(call[p].pc = "sending" /\ call[p].cur = c)

\* disconnect(c) reaches `del self.connections[c]` in this step
DisconnectRuns(c) == c \in Registered /\ c \notin Registered'

\* c is taken out of the user index entry of u / the subscribers of t
LeavesUser(c, u) ==
    c \in DictGet(user_connections, u) /\ c \notin DictGet(user_connections', u)

LeavesTask(c, t) ==
    c \in DictGet(task_subscribers, t) /\ c \notin DictGet(task_subscribers', t)

\* an unsubscribe_task message of c's own client for task t was handled
Unsubscribes(c, t) ==
    /\ last'.op = "handle" /\ last'.proc = c
    /\ last'.msg.type = "unsubscribe_task" /\ last'.msg.task_id = t

====
